---- MODULE Spec2Model ----
(***************************************************************************)
(* State engine of the arox chat agent: ChatFiles (context-file tracking), *)
(* SimpleState (transcript and prompt assembly), the file/model/reset      *)
(* commands and the ChatAgent turn loop.                                   *)
(*                                                                         *)
(* Text is modelled as a sequence of tokens (the empty string is <<>>,     *)
(* concatenation is \o), a path as [abs, parts] like pathlib's PurePath.   *)
(***************************************************************************)
EXTENDS Integers, Sequences, FiniteSets, TLC

VARIABLES
    io_channel,     \* agent.io_channel: None, or the channel given to the agent
    messages,       \* SimpleState._messages: the transcript
    message_meta,   \* SimpleState.message_meta: the keys whose value is True
    chat_files,     \* ChatFiles._chat_files (committed, insertion order)
    pending_files,  \* ChatFiles._pending_files
    model_ref,      \* agent.model_ref
    system_prompt,  \* agent.system_prompt (configuration, fixed at construction)
    disk,           \* the file system: location -> [kind, content]
    cwd,            \* the process's current directory
    last,           \* observation of the last SimpleState operation
    fres,           \* observation of the last ChatFiles operation
    loop,           \* ChatAgent.start: "running", "crashed" or "eof"
    log,            \* ChatAgent.start: what was done with each line read
    tool_calls,     \* the records given to tool_registry.execute_tool_call
    agents,         \* two agents side by side: name -> its state and context
    heap,           \* the dict objects the agents' `context` attributes refer to
    project,        \* CoderState: agent_config.repo_map and the tracked files
    obs,            \* observation of the last candidate list, /save or completion
    frame           \* the command coroutine in progress: where it waits, what it wrote

vars == <<io_channel, messages, message_meta, chat_files, pending_files,
          model_ref, system_prompt, disk, cwd, last, fres, loop, log,
          tool_calls, agents, heap, project, obs, frame>>

-----------------------------------------------------------------------------
(* Bounds of the model *)

MaxTurns == 2
MaxRounds == 1
MaxArgs == 2
MaxLines == 3
MaxAgentTurns == 1
MaxText == 3
MaxMsgLen == 4

-----------------------------------------------------------------------------
(* Paths *)

Rel(parts) == [abs |-> FALSE, parts |-> parts]
AbsP(parts) == [abs |-> TRUE, parts |-> parts]

Workspace == AbsP(<<"w">>)
OtherDir == AbsP(<<"o">>)

\* pathlib: base / p
Join(base, p) ==
    IF p.abs THEN p ELSE [abs |-> base.abs, parts |-> base.parts \o p.parts]

IsRelativeTo(p, base) ==
    /\ p.abs = base.abs
    /\ Len(base.parts) <= Len(p.parts)
    /\ SubSeq(p.parts, 1, Len(base.parts)) = base.parts

RelativeTo(p, base) == Rel(SubSeq(p.parts, Len(base.parts) + 1, Len(p.parts)))

\* The path strings given to the file operations and commands.
PathStrs == { "a", "d", "/w/a", "/o/a" }

\* Path(path): the string parsed into its parts
PathOf(path) ==
    CASE path = "a" -> Rel(<<"a">>)
      [] path = "d" -> Rel(<<"d">>)
      [] path = "/w/a" -> AbsP(<<"w", "a">>)
      [] path = "/o/a" -> AbsP(<<"o", "a">>)
      [] path = "" -> Rel(<<>>)
      [] OTHER -> Rel(<<path>>)

normalize(path) ==
    LET p0 == PathOf(path)
        p == IF ~p0.abs THEN Join(Workspace, p0) ELSE p0
    IN  IF IsRelativeTo(p, Workspace) THEN RelativeTo(p, Workspace) ELSE p

\* str(path), as tokens
PathTokens(p) == (IF p.abs THEN <<"/">> ELSE <<>>) \o p.parts

NPaths == { normalize(p) : p \in PathStrs }

-----------------------------------------------------------------------------
(* File system *)

Absent == [kind |-> "absent", content |-> <<>>]
Dir == [kind |-> "dir", content |-> <<>>]
File(c) == [kind |-> "file", content |-> c]

\* The locations whose content changes while the program runs, and what each
\* may hold: the workspace file a (missing, empty or with text) ...
Locs == { <<"w", "a">> }

Allowed(loc) == { Absent, File(<<>>), File(<<"x">>) }

\* ... beside a directory d in the workspace and a file a outside of it.
Fixed(loc) ==
    IF loc \in { Workspace.parts, OtherDir.parts, <<"w", "d">> } THEN Dir
    ELSE IF loc = <<"o", "a">> THEN File(<<"y">>)
    ELSE Absent

Lookup(d, loc) == IF loc \in DOMAIN d THEN d[loc] ELSE Fixed(loc)

\* Path.exists(): a relative path is resolved against the current directory.
Exists(p, d, c) == Lookup(d, Join(c, p).parts).kind # "absent"

-----------------------------------------------------------------------------
(* ChatFiles *)

Contains(s, x) == \E i \in 1..Len(s) : s[i] = x

\* list.remove(x): the first occurrence
RemoveFirst(s, x) ==
    LET i == CHOOSE k \in 1..Len(s) : s[k] = x /\ \A j \in 1..(k - 1) : s[j] # x
    IN  SubSeq(s, 1, i - 1) \o SubSeq(s, i + 1, Len(s))

FS(chat, pending) == [chat |-> chat, pending |-> pending]

\* add that appends to the committed list without looking
ChatFilesAddAlwaysAppends(fs, f) ==
    FS(Append(fs.chat, f),
       IF ~Contains(fs.pending, f) THEN Append(fs.pending, f) ELSE fs.pending)

ChatFilesAdd(fs, f) ==
    FS(IF ~Contains(fs.chat, f) THEN Append(fs.chat, f) ELSE fs.chat,
       IF ~Contains(fs.pending, f) THEN Append(fs.pending, f) ELSE fs.pending)

\* remove that forgets the pending list
ChatFilesRemoveKeepsPending(fs, f) ==
    FS(IF Contains(fs.chat, f) THEN RemoveFirst(fs.chat, f) ELSE fs.chat,
       fs.pending)

\* remove that forgets what is pending when the path is not committed
ChatFilesRemoveUnknownClearsPending(fs, f) ==
    IF Contains(fs.chat, f)
    THEN FS(RemoveFirst(fs.chat, f),
            IF Contains(fs.pending, f) THEN RemoveFirst(fs.pending, f)
            ELSE fs.pending)
    ELSE FS(fs.chat, <<>>)

ChatFilesRemove(fs, f) ==
    FS(IF Contains(fs.chat, f) THEN RemoveFirst(fs.chat, f) ELSE fs.chat,
       IF Contains(fs.pending, f) THEN RemoveFirst(fs.pending, f) ELSE fs.pending)

ChatFilesClear(fs) == FS(<<>>, <<>>)

ChatFilesClearPending(fs) == FS(fs.chat, <<>>)

have_pending(fs) == fs.pending # <<>>

RECURSIVE AddByNamesLoop(_, _, _, _, _, _)
AddByNamesLoop(paths, fs, d, c, succeed, not_exist) ==
    IF paths = <<>>
    THEN [fs |-> fs, succeed |-> succeed, not_exist |-> not_exist]
    ELSE LET path == Head(paths)
             p == normalize(path)
         IN  IF ~Exists(p, d, c)
             THEN AddByNamesLoop(Tail(paths), fs, d, c, succeed,
                                 Append(not_exist, path))
             ELSE AddByNamesLoop(Tail(paths), ChatFilesAdd(fs, p), d, c,
                                 Append(succeed, path), not_exist)

add_by_names(paths, fs, d, c) == AddByNamesLoop(paths, fs, d, c, <<>>, <<>>)

FileBlock(fname, content) ==
    <<"\n====FILE: ">> \o PathTokens(fname) \o <<"====\n">> \o content \o <<"\n\n">>

\* the loop of read_files putting each block behind the text read so far
RECURSIVE ReadLoopAppending(_, _, _, _)
ReadLoopAppending(files, d, text, fpaths) ==
    IF files = <<>>
    THEN [text |-> text, fpaths |-> fpaths, raised |-> FALSE]
    ELSE LET fname == Head(files)
             p == IF fname.abs THEN fname ELSE Join(Workspace, fname)
             e == Lookup(d, p.parts)
         IN  IF e.kind = "dir"
             THEN [text |-> text, fpaths |-> fpaths, raised |-> TRUE]
             ELSE IF e.kind = "absent"
             THEN ReadLoopAppending(Tail(files), d, text, fpaths)
             ELSE ReadLoopAppending(Tail(files), d,
                                    text \o FileBlock(fname, e.content),
                                    Append(fpaths, fname))

\* The loop of read_files: a missing file is skipped, a directory makes open()
\* raise IsADirectoryError, which is not caught.
RECURSIVE ReadLoop(_, _, _, _)
ReadLoop(files, d, text, fpaths) ==
    IF files = <<>>
    THEN [text |-> text, fpaths |-> fpaths, raised |-> FALSE]
    ELSE LET fname == Head(files)
             p == IF fname.abs THEN fname ELSE Join(Workspace, fname)
             e == Lookup(d, p.parts)
         IN  IF e.kind = "dir"
             THEN [text |-> text, fpaths |-> fpaths, raised |-> TRUE]
             ELSE IF e.kind = "absent"
             THEN ReadLoop(Tail(files), d, text, fpaths)
             ELSE ReadLoop(Tail(files), d, FileBlock(fname, e.content) \o text,
                           Append(fpaths, fname))

\* read_files without its clear_pending()
ReadFilesKeepsPending(fs, d) ==
    IF fs.chat = <<>>
    THEN [text |-> <<>>, fpaths |-> <<>>, raised |-> FALSE, fs |-> fs]
    ELSE LET r == ReadLoop(fs.chat, d, <<>>, <<>>)
         IN  [text |-> r.text, fpaths |-> r.fpaths, raised |-> r.raised,
              fs |-> fs]

read_files(fs, d) ==
    IF fs.chat = <<>>
    THEN [text |-> <<>>, fpaths |-> <<>>, raised |-> FALSE, fs |-> fs]
    ELSE LET r == ReadLoop(fs.chat, d, <<>>, <<>>)
         IN  [text |-> r.text, fpaths |-> r.fpaths, raised |-> r.raised,
              fs |-> IF r.raised THEN fs ELSE ChatFilesClearPending(fs)]

-----------------------------------------------------------------------------
(* SimpleState: the transcript and its assembly *)

Msg(role, content, typ) == [role |-> role, content |-> content, typ |-> typ]
Item(typ, content) == [typ |-> typ, content |-> content]

\* agent.model_prompt: the configured (prompt, pattern) pairs, in declared order
ModelPrompt ==
    << [prompt |-> <<"P1">>, pattern |-> "a"],
       [prompt |-> <<"P2">>, pattern |-> "b"] >>

Models == { "ab", "b", "c" }

\* set_model: provider_model of the configuration group model.'<model_ref>',
\* whose default is the reference itself. The configuration names a provider
\* model for "ab" and none for the other references.
provider_model(m) == IF m = "ab" THEN "vendor/large" ELSE m
SystemPrompts == { <<>>, <<"S">> }
Inputs == { <<"u1">>, <<"u2">> }

\* the characters of a model identifier or of a (literal) pattern
Chars(s) ==
    CASE s = "ab" -> <<"a", "b">>
      [] s = "b c" -> <<"b", " ", "c">>
      [] s = "b " -> <<"b", " ">>
      [] s = " b" -> <<" ", "b">>
      [] s = "" -> <<>>
      [] OTHER -> <<s>>

\* re.search(pattern, s) for a literal pattern: it occurs somewhere in s
re_search(pattern, s) ==
    LET p == Chars(pattern)
        t == Chars(s)
    IN  \E i \in 0..(Len(t) - Len(p)) : SubSeq(t, i + 1, i + Len(p)) = p

\* arox.utils.xml_wrap of one (tag, content) item. The module is not among
\* the sources; by the specification the content of a user_instruction
\* message is the raw input and empty content makes no message, so the
\* content of the message is the content of the item
xml_wrap(item) == item.content

\* _get_message_items that reads the files on every assembly
GetMessageItemsAlwaysFiles(user_input, meta, fs, sp, d) ==
    LET sys == ("system" \notin meta) /\ sp # <<>>
        meta1 == IF sys THEN meta \cup {"system"} ELSE meta
        items1 == IF sys THEN <<Item("system", sp)>> ELSE <<>>
        r == read_files(fs, d)
    IN  IF r.raised
        THEN [items |-> items1, meta |-> meta1, fs |-> fs, raised |-> TRUE]
        ELSE LET items2 == Append(items1, Item("files", r.text))
                 items3 == IF user_input # <<>>
                           THEN Append(items2, Item("user_instruction", user_input))
                           ELSE items2
             IN  [items |-> items3, meta |-> meta1, fs |-> r.fs, raised |-> FALSE]

_get_message_items(user_input, meta, fs, sp, d) ==
    LET sys == ("system" \notin meta) /\ sp # <<>>
        meta1 == IF sys THEN meta \cup {"system"} ELSE meta
        items1 == IF sys THEN <<Item("system", sp)>> ELSE <<>>
        rd == have_pending(fs) \/ user_input # <<>>
        r == read_files(fs, d)
    IN  IF rd /\ r.raised
        THEN [items |-> items1, meta |-> meta1, fs |-> fs, raised |-> TRUE]
        ELSE LET items2 == IF rd THEN Append(items1, Item("files", r.text))
                           ELSE items1
                 items3 == IF user_input # <<>>
                           THEN Append(items2, Item("user_instruction", user_input))
                           ELSE items2
             IN  [items |-> items3, meta |-> meta1,
                  fs |-> IF rd THEN r.fs ELSE fs, raised |-> FALSE]

\* _append_with_typ_meta that appends without removing the outdated messages
AppendWithoutRemoval(msgs, typ, content) ==
    IF content # <<>> THEN Append(msgs, Msg("user", content, typ)) ELSE msgs

\* _append_with_typ_meta that overwrites the outdated message where it stands
ReplaceInPlace(msgs, typ, content) ==
    IF \E i \in 1..Len(msgs) : msgs[i].typ = typ
    THEN [i \in 1..Len(msgs) |->
             IF msgs[i].typ = typ THEN Msg("user", content, typ) ELSE msgs[i]]
    ELSE IF content # <<>> THEN Append(msgs, Msg("user", content, typ)) ELSE msgs

\* _append_with_typ_meta that removes the responses along with the tag
AppendDroppingResponses(msgs, typ, content) ==
    LET kept == SelectSeq(msgs, LAMBDA m : m.typ # typ /\ m.role # "assistant")
    IN  IF content # <<>> THEN Append(kept, Msg("user", content, typ)) ELSE kept

_append_with_typ_meta(msgs, typ, content) ==
    LET kept == SelectSeq(msgs, LAMBDA m : m.typ # typ)
    IN  IF content # <<>> THEN Append(kept, Msg("user", content, typ)) ELSE kept

\* the user instruction appended through the replace-by-tag path
InjectItemDedup(msgs, item) ==
    IF item.typ = "system" THEN Append(msgs, Msg("system", item.content, ""))
    ELSE _append_with_typ_meta(msgs, item.typ, xml_wrap(item))

InjectItem(msgs, item) ==
    IF item.typ = "system" THEN Append(msgs, Msg("system", item.content, ""))
    ELSE LET content == xml_wrap(item)
         IN  IF item.typ = "files"
             THEN _append_with_typ_meta(msgs, "files", content)
             ELSE IF content # <<>> THEN Append(msgs, Msg("user", content, ""))
             ELSE msgs

RECURSIVE InjectItems(_, _)
InjectItems(msgs, items) ==
    IF items = <<>> THEN msgs
    ELSE InjectItems(InjectItem(msgs, Head(items)), Tail(items))

\* the model-prompt loop without its `break`
RECURSIVE InjectEveryModelPrompt(_, _, _)
InjectEveryModelPrompt(msgs, prompts, model) ==
    IF prompts = <<>> THEN msgs
    ELSE InjectEveryModelPrompt(
             IF re_search(Head(prompts).pattern, model)
             THEN _append_with_typ_meta(msgs, "model_prompt", Head(prompts).prompt)
             ELSE msgs,
             Tail(prompts), model)

RECURSIVE InjectModelPrompt(_, _, _)
InjectModelPrompt(msgs, prompts, model) ==
    IF prompts = <<>> THEN msgs
    ELSE IF re_search(Head(prompts).pattern, model)
    THEN _append_with_typ_meta(msgs, "model_prompt", Head(prompts).prompt)
    ELSE InjectModelPrompt(msgs, Tail(prompts), model)

\* the constructor default of SimpleState
use_flexible_toolcall == TRUE

\* State.inject_tools_into_messages, the last step of an assembly that
\* returns. The method is the base class's (kissllm) and works on the
\* transcript with the tool registry of the state; no tool is registered in
\* the states built here, and the transcript is taken to come back as it went
\* in. The call itself is counted.
inject_tools_into_messages(msgs) == msgs

\* `if self.use_flexible_toolcall: self.inject_tools_into_messages()`
InjectTools(msgs) ==
    IF use_flexible_toolcall
    THEN [messages |-> inject_tools_into_messages(msgs), calls |-> 1]
    ELSE [messages |-> msgs, calls |-> 0]

_assemble_prompt(user_input, msgs, meta, fs, sp, model, d) ==
    LET g == _get_message_items(user_input, meta, fs, sp, d)
    IN  IF g.raised
        THEN [messages |-> msgs, meta |-> g.meta, fs |-> g.fs,
              has_new |-> FALSE, raised |-> TRUE, inject_tools_calls |-> 0]
        ELSE LET t == InjectTools(InjectModelPrompt(InjectItems(msgs, g.items),
                                                    ModelPrompt, model))
             IN  [messages |-> t.messages, meta |-> g.meta, fs |-> g.fs,
                  has_new |-> g.items # <<>>, raised |-> FALSE,
                  inject_tools_calls |-> t.calls]

-----------------------------------------------------------------------------
(* State, initial state and the operations *)

Fs == FS(chat_files, pending_files)

NoLast ==
    [op |-> "none", input |-> <<>>, has_new |-> FALSE, raised |-> FALSE,
     pre |-> <<>>, pre_meta |-> {}, had_pending |-> FALSE, ret |-> FALSE,
     inject_tools_calls |-> 0]

NoFres ==
    [op |-> "none", paths |-> <<>>, succeed |-> <<>>, not_exist |-> <<>>,
     text |-> <<>>, fpaths |-> <<>>, raised |-> FALSE, pre |-> FS(<<>>, <<>>)]

\* no second agent, no context object: the single-session specifications
NoAgents == <<>>
NoHeap == <<>>

\* no project collaborator (SimpleState), nothing observed yet
NoProject == [repo_map |-> FALSE, tracked |-> <<>>, constructed |-> FALSE]
NoObs == [op |-> "none"]

\* no command is under way
NoFrame == [pc |-> "idle", i |-> 0, written |-> <<>>]

\* agent.io_channel: None unless a channel was given to the agent
NoIoChannel == "None"
IoChannel == "channel"

\* `await self.agent.io_channel.write(...)` raises AttributeError on None
WriteRaises(io) == io = NoIoChannel

\* The lists of path strings given to add_by_names: no string twice ("a" and
\* "/w/a" still name one file).
ArgLists ==
    UNION { { paths \in [1..n -> PathStrs] :
                  \A i, j \in 1..n : i # j => paths[i] # paths[j] } :
            n \in 1..MaxArgs }

\* The paths given to /add and /drop
CmdPaths == { "a", "d" }

IsUserInstruction(m) == m.role = "user" /\ m.typ = ""
Count(msgs, P(_)) == Len(SelectSeq(msgs, P))
IsAssistant(m) == m.role = "assistant"

Init ==
    /\ frame = NoFrame
    /\ io_channel = NoIoChannel
    /\ messages = <<>>
    /\ message_meta = {}
    /\ chat_files = <<>>
    /\ pending_files = <<>>
    /\ model_ref = "ab"
    /\ system_prompt \in SystemPrompts
    /\ disk = [loc \in Locs |-> Absent]
    /\ cwd = Workspace
    /\ last = NoLast
    /\ fres = NoFres
    /\ loop = "running"
    /\ log = <<>>
    /\ tool_calls = <<>>
    /\ agents = NoAgents
    /\ heap = NoHeap
    /\ project = NoProject
    /\ obs = NoObs

\* _assemble_prompt run on the transcript msgs. `continu` is what the base
\* class's handle_response returned before the assembly (FALSE for a user turn),
\* `ret` what the caller of the assembly returns: has_new for add_user_input,
\* `new_content and continu` for handle_response.
Assemble(op, user_input, msgs, continu) ==
    LET r == _assemble_prompt(user_input, msgs, message_meta, Fs, system_prompt,
                              model_ref, disk)
    IN  /\ messages' = r.messages
        /\ message_meta' = r.meta
        /\ chat_files' = r.fs.chat
        /\ pending_files' = r.fs.pending
        /\ last' = [op |-> op, input |-> user_input, has_new |-> r.has_new,
                    raised |-> r.raised, pre |-> msgs,
                    pre_meta |-> message_meta,
                    had_pending |-> have_pending(Fs),
                    inject_tools_calls |-> r.inject_tools_calls,
                    ret |-> IF r.raised THEN FALSE
                            ELSE IF op = "handle_response"
                            THEN r.has_new /\ continu
                            ELSE r.has_new]

\* SimpleState.add_user_input
AddUserInput(u) ==
    /\ Count(messages, IsUserInstruction) < MaxTurns
    /\ Assemble("add_user_input", u, messages, FALSE)
    /\ UNCHANGED <<frame, io_channel, tool_calls, agents, heap, project, obs,
                   model_ref, system_prompt, disk, cwd, fres, loop, log>>

\* SimpleState.handle_response: the base class appends the response and says
\* whether it wants another round (continu), then the state is assembled again
\* with empty input. The base class is awaited; the callers of this method
\* (LLMBaseAgent.step inside the sequential loop of ChatAgent.start) run no
\* other task on the state meanwhile, and the append reads neither the disk
\* nor the chat files, so the append and the assembly are one step.
HandleResponse(content, continu) ==
    /\ messages # <<>>
    /\ Count(messages, IsAssistant) < MaxRounds
    /\ Assemble("handle_response", <<>>,
                Append(messages, Msg("assistant", content, "")), continu)
    /\ UNCHANGED <<frame, io_channel, tool_calls, agents, heap, project, obs,
                   model_ref, system_prompt, disk, cwd, fres, loop, log>>

\* SimpleState.reset
Reset ==
    /\ messages' = <<>>
    /\ message_meta' = {}
    /\ chat_files' = ChatFilesClear(Fs).chat
    /\ pending_files' = ChatFilesClear(Fs).pending
    /\ last' = [NoLast EXCEPT !.op = "reset"]
    /\ UNCHANGED <<frame, io_channel, tool_calls, agents, heap, project, obs,
                   model_ref, system_prompt, disk, cwd, fres, loop, log>>

\* FileCommand.execute("add", args)
CmdAdd(args) ==
    LET r == add_by_names(args, Fs, disk, cwd)
    IN  /\ chat_files' = r.fs.chat
        /\ pending_files' = r.fs.pending
        /\ last' = NoLast
        /\ UNCHANGED <<frame, io_channel, tool_calls, agents, heap, project,
                       obs, messages, message_meta, model_ref, system_prompt,
                       disk, cwd, fres, loop, log>>

\* FileCommand.execute("drop", args): `await chat_files.remove(p)` removes the
\* first path and then raises TypeError (remove returns None)
CmdDrop(args) ==
    LET r == ChatFilesRemove(Fs, normalize(args[1]))
    IN  /\ chat_files' = r.chat
        /\ pending_files' = r.pending
        /\ last' = NoLast
        /\ UNCHANGED <<frame, io_channel, tool_calls, agents, heap, project,
                       obs, messages, message_meta, model_ref, system_prompt,
                       disk, cwd, fres, loop, log>>

\* ModelCommand.execute with a model name
CmdModel(m) ==
    /\ model_ref' = m
    /\ last' = NoLast
    /\ UNCHANGED <<frame, io_channel, tool_calls, agents, heap, project, obs,
                   messages, message_meta, chat_files, pending_files,
                   system_prompt, disk, cwd, fres, loop, log>>

\* The file system changes under the program (an editor, a tool).
DiskChange(loc, e) ==
    /\ e # disk[loc]
    /\ disk' = [disk EXCEPT ![loc] = e]
    /\ last' = NoLast
    /\ fres' = NoFres
    /\ UNCHANGED <<frame, io_channel, tool_calls, agents, heap, project, obs,
                   messages, message_meta, chat_files, pending_files,
                   model_ref, system_prompt, cwd, loop, log>>

\* SimpleState.assemble_chat_files called on its own, outside an assembly:
\* chat_files.read_files(), whose text goes to the caller and which leaves
\* nothing pending unless it raised
AssembleChatFiles ==
    LET r == read_files(Fs, disk)
    IN  /\ chat_files' = r.fs.chat
        /\ pending_files' = r.fs.pending
        /\ last' = NoLast
        /\ UNCHANGED <<frame, io_channel, tool_calls, agents, heap, project,
                       obs, messages, message_meta, model_ref, system_prompt,
                       disk, cwd, fres, loop, log>>

Next ==
    \/ \E u \in Inputs : AddUserInput(u)
    \/ \E continu \in BOOLEAN : HandleResponse(<<"r">>, continu)
    \/ AssembleChatFiles
    \/ Reset
    \/ \E path \in CmdPaths : CmdAdd(<<path>>)
    \/ \E path \in CmdPaths : CmdDrop(<<path>>)
    \/ \E m \in Models : CmdModel(m)
    \/ \E loc \in Locs : \E e \in Allowed(loc) : DiskChange(loc, e)

Spec == Init /\ [][Next]_vars

-----------------------------------------------------------------------------
(* The ChatFiles operations called directly; fres records each call *)

FilesInit ==
    /\ frame = NoFrame
    /\ io_channel = NoIoChannel
    /\ messages = <<>>
    /\ message_meta = {}
    /\ chat_files = <<>>
    /\ pending_files = <<>>
    /\ model_ref = "ab"
    /\ system_prompt = <<"S">>
    /\ disk = [loc \in Locs |-> Absent]
    /\ cwd \in { Workspace, OtherDir }
    /\ last = NoLast
    /\ fres = NoFres
    /\ loop = "running"
    /\ log = <<>>
    /\ tool_calls = <<>>
    /\ agents = NoAgents
    /\ heap = NoHeap
    /\ project = NoProject
    /\ obs = NoObs

FilesCall(op, fs) ==
    /\ chat_files' = fs.chat
    /\ pending_files' = fs.pending
    /\ UNCHANGED <<frame, io_channel, tool_calls, agents, heap, project, obs,
                   messages, message_meta, model_ref, system_prompt, disk, cwd,
                   last, loop, log>>

AddByNames(paths) ==
    LET r == add_by_names(paths, Fs, disk, cwd)
    IN  /\ FilesCall("add_by_names", r.fs)
        /\ fres' = [NoFres EXCEPT !.op = "add_by_names", !.paths = paths,
                                  !.succeed = r.succeed,
                                  !.not_exist = r.not_exist, !.pre = Fs]

Add(f) ==
    /\ FilesCall("add", ChatFilesAdd(Fs, f))
    /\ fres' = [NoFres EXCEPT !.op = "add", !.fpaths = <<f>>, !.pre = Fs]

Remove(f) ==
    /\ FilesCall("remove", ChatFilesRemove(Fs, f))
    /\ fres' = [NoFres EXCEPT !.op = "remove", !.fpaths = <<f>>, !.pre = Fs]

Clear ==
    /\ FilesCall("clear", ChatFilesClear(Fs))
    /\ fres' = [NoFres EXCEPT !.op = "clear", !.pre = Fs]

ClearPending ==
    /\ FilesCall("clear_pending", ChatFilesClearPending(Fs))
    /\ fres' = [NoFres EXCEPT !.op = "clear_pending", !.pre = Fs]

ReadFiles ==
    LET r == read_files(Fs, disk)
    IN  /\ FilesCall("read_files", r.fs)
        /\ fres' = [NoFres EXCEPT !.op = "read_files", !.text = r.text,
                                  !.fpaths = r.fpaths, !.raised = r.raised,
                                  !.pre = Fs]

FilesNext ==
    \/ \E paths \in ArgLists : AddByNames(paths)
    \/ \E f \in NPaths : Add(f)
    \/ \E f \in NPaths : Remove(f)
    \/ Clear
    \/ ClearPending
    \/ ReadFiles
    \/ \E loc \in Locs : \E e \in Allowed(loc) : DiskChange(loc, e)

FilesSpec == FilesInit /\ [][FilesNext]_vars

-----------------------------------------------------------------------------
(* ChatAgent.start: the turn loop over the lines of the input generator.   *)
(* A line is a sequence of tokens: "/", " " and words.                     *)

Lines ==
    { <<>>, <<" ">>, <<"hi">>, <<" ", "/", "reset">>,
      <<"/", "add", " ", "a">>, <<"/", "drop", " ", "a">>,
      <<"/", "model", " ", "b">>, <<"/", "reset">>, <<"/", "bogus">>, <<"/">>,
      <<"/", "add">>, <<"/", "add", " ">>, <<"/", "add", " ", "a", " ", "d">>,
      <<"/", "drop", " ", "a", " ", "d">>,
      <<"/", "model">>, <<"/", "model", " ">>,
      <<"/", "model", " ", "b", " ", "c">>,
      <<"/", "invoke-tool">>, <<"/", "invoke-tool", " ", "t">>,
      <<"/", "invoke-tool", " ", "t", " ", "{\"k\":1}">>,
      <<"/", "invoke-tool", " ">>, <<"/", "invoke-tool", " ", "t", " ", "x">>,
      <<"/", "invoke-tool", " ", "{}", " ", "[]">> }

\* only the line without any character counts as blank
IsBlankOnlyEmpty(line) == line = <<>>

\* str.strip() leaves nothing: every character is white space
IsBlank(line) == \A i \in 1..Len(line) : line[i] = " "

StartsWithSlash(line) == line # <<>> /\ Head(line) = "/"

\* the index of the first space of the line, or 0
FirstSpace(line) ==
    IF \E i \in 1..Len(line) : line[i] = " "
    THEN CHOOSE i \in 1..Len(line) :
             line[i] = " " /\ \A j \in 1..(i - 1) : line[j] # " "
    ELSE 0

\* the text without its leading white space
RECURSIVE LStrip(_)
LStrip(line) ==
    IF line # <<>> /\ Head(line) = " " THEN LStrip(Tail(line)) ELSE line

\* parse_cmdline that strips leading white space before looking for the prefix
ParseCmdlineStripped(cmdline) ==
    LET l == LStrip(cmdline)
        i == FirstSpace(l)
    IN  IF ~StartsWithSlash(l)
        THEN [is_cmd |-> FALSE, name |-> <<>>, has_arg |-> FALSE, arg |-> <<>>]
        ELSE IF i = 0
        THEN [is_cmd |-> TRUE, name |-> Tail(l), has_arg |-> FALSE, arg |-> <<>>]
        ELSE [is_cmd |-> TRUE, name |-> SubSeq(l, 2, i - 1), has_arg |-> TRUE,
              arg |-> SubSeq(l, i + 1, Len(l))]

\* parse_cmdline: (c_name, c_arg), or (None, None) for a line without the prefix
parse_cmdline(cmdline) ==
    IF ~StartsWithSlash(cmdline)
    THEN [is_cmd |-> FALSE, name |-> <<>>, has_arg |-> FALSE, arg |-> <<>>]
    ELSE LET i == FirstSpace(cmdline)
         IN  IF i = 0
             THEN [is_cmd |-> TRUE, name |-> Tail(cmdline), has_arg |-> FALSE,
                   arg |-> <<>>]
             ELSE [is_cmd |-> TRUE, name |-> SubSeq(cmdline, 2, i - 1),
                   has_arg |-> TRUE,
                   arg |-> SubSeq(cmdline, i + 1, Len(cmdline))]

\* str.split(" ") of the argument text
RECURSIVE SplitSpaces(_)
SplitSpaces(text) ==
    LET i == FirstSpace(text)
    IN  IF i = 0 THEN <<text>>
        ELSE <<SubSeq(text, 1, i - 1)>> \o SplitSpaces(SubSeq(text, i + 1, Len(text)))

\* the text of the line as one string
RECURSIVE Str(_)
Str(text) == IF text = <<>> THEN "" ELSE Head(text) \o Str(Tail(text))

\* a word of the line as the string it stands for
Word(piece) == IF piece = <<>> THEN "" ELSE piece[1]

Words(pieces) == [i \in 1..Len(pieces) |-> Word(pieces[i])]

\* str.split(maxsplit=1): split on white space, at most once
SplitMax1(text) ==
    LET t == LStrip(text)
        i == FirstSpace(t)
    IN  IF t = <<>> THEN <<>>
        ELSE IF i = 0 THEN <<t>>
        ELSE LET rest == LStrip(SubSeq(t, i + 1, Len(t)))
             IN  IF rest = <<>> THEN <<SubSeq(t, 1, i - 1)>>
                 ELSE <<SubSeq(t, 1, i - 1), rest>>

\* a piece of the line as the string it stands for; "?" stands for a text of
\* several words
Text(piece) ==
    IF piece = <<>> THEN "" ELSE IF Len(piece) = 1 THEN piece[1] ELSE "?"

JsonInvalid == [kind |-> "invalid", value |-> {}]
JsonObject(pairs) == [kind |-> "object", value |-> pairs]
JsonOther == [kind |-> "other", value |-> {}]

\* json.loads: an object (its key/value pairs), another JSON value, or no JSON
json_loads(str) ==
    CASE str = "{}" -> JsonObject({})
      [] str \in { "{\"k\":1}", "{\"k\": 1}" } -> JsonObject({ <<"k", "1">> })
      [] str \in { "[]", "1", "null" } -> JsonOther
      [] OTHER -> JsonInvalid

\* json.dumps of an object
json_dumps(pairs) == IF pairs = {} THEN "{}" ELSE "{\"k\": 1}"

\* The aliases registered with the command manager.
Aliases ==
    { <<"add">>, <<"drop">>, <<"model">>, <<"reset">>, <<"invoke-tool">> }

St(msgs, meta, fs, model) ==
    [messages |-> msgs, meta |-> meta, fs |-> fs, model |-> model]

Cur == St(messages, message_meta, Fs, model_ref)

\* FileCommand.execute
FileCommandExecute(name, c, st, d, w, io) ==
    IF ~c.has_arg
    THEN [st |-> st, raised |-> TRUE]
    ELSE LET files == Words(SplitSpaces(c.arg))
         IN  IF name = <<"add">>
             THEN [st |-> [st EXCEPT !.fs = add_by_names(files, st.fs, d, w).fs],
                   raised |-> /\ add_by_names(files, st.fs, d, w).not_exist # <<>>
                              /\ WriteRaises(io)]
             ELSE [st |-> [st EXCEPT !.fs = ChatFilesRemove(st.fs, normalize(files[1]))],
                   raised |-> TRUE]

\* ModelCommand.execute: the whole argument text is the new reference
ModelCommandExecute(c, st, io) ==
    IF ~c.has_arg \/ c.arg = <<>>
    THEN [st |-> st, raised |-> WriteRaises(io)]
    ELSE [st |-> [st EXCEPT !.model = Str(c.arg)], raised |-> FALSE]

\* ResetCommand.execute
ResetCommandExecute(st, io) ==
    [st |-> [st EXCEPT !.messages = <<>>, !.meta = {}, !.fs = ChatFilesClear(st.fs)],
     raised |-> WriteRaises(io)]

\* the record given to tool_registry.execute_tool_call
ToolCall(function_name, args) ==
    [id |-> <<"cmd_", function_name>>, type |-> "function",
     name |-> function_name, arguments |-> json_dumps(args)]

\* InvokeToolCommand.execute: the calls it forwards, and whether it raised.
\* Every notice goes to the IO channel; the one written before the tool call
\* stands inside the `try`, whose `except Exception` writes again.
InvokeToolCommandExecute(c, io) ==
    IF ~c.has_arg
    THEN [calls |-> <<>>, raised |-> TRUE]
    ELSE LET parts == SplitMax1(c.arg)
         IN  IF Len(parts) < 1
             THEN [calls |-> <<>>, raised |-> WriteRaises(io)]
             ELSE LET function_name == Text(parts[1])
                      args_str == IF Len(parts) > 1 THEN Text(parts[1]) ELSE "{}"
                      args == json_loads(args_str)
                  IN  IF args.kind # "object"
                      THEN [calls |-> <<>>, raised |-> WriteRaises(io)]
                      ELSE IF WriteRaises(io)
                      THEN [calls |-> <<>>, raised |-> TRUE]
                      ELSE [calls |-> <<ToolCall(function_name, args.value)>>,
                            raised |-> FALSE]

\* CommandManager.try_execute_command: not consumed without the prefix; else the
\* handler registered for the name runs, or an unknown-command notice is written,
\* and the line is consumed
try_execute_command(line, st, d, w, io) ==
    LET c == parse_cmdline(line)
    IN  IF ~c.is_cmd
        THEN [consumed |-> FALSE, executed |-> FALSE, st |-> st, raised |-> FALSE,
              calls |-> <<>>]
        ELSE IF c.name \notin Aliases
        THEN [consumed |-> TRUE, executed |-> FALSE, st |-> st, raised |-> FALSE,
              calls |-> <<>>]
        ELSE IF c.name = <<"invoke-tool">>
        THEN LET t == InvokeToolCommandExecute(c, io)
             IN  [consumed |-> TRUE, executed |-> TRUE, st |-> st,
                  raised |-> t.raised, calls |-> t.calls]
        ELSE LET r == IF c.name \in { <<"add">>, <<"drop">> }
                      THEN FileCommandExecute(c.name, c, st, d, w, io)
                      ELSE IF c.name = <<"model">>
                      THEN ModelCommandExecute(c, st, io)
                      ELSE ResetCommandExecute(st, io)
             IN  [consumed |-> TRUE, executed |-> TRUE, st |-> r.st,
                  raised |-> r.raised, calls |-> <<>>]

LogEntry(line, tried, consumed, steps) ==
    [line |-> line, tried |-> tried, consumed |-> consumed, steps |-> steps]

LoopGuard == loop = "running" /\ Len(log) < MaxLines

\* `if not user_input.strip(): continue`
LoopSkip(line) ==
    /\ LoopGuard
    /\ IsBlank(line)
    /\ log' = Append(log, LogEntry(line, FALSE, FALSE, 0))
    /\ UNCHANGED <<frame, io_channel, tool_calls, agents, heap, project, obs,
                   messages, message_meta, chat_files, pending_files,
                   model_ref, system_prompt, disk, cwd, last, fres, loop>>

\* the line is consumed by try_execute_command
LoopCommand(line) ==
    LET r == try_execute_command(line, Cur, disk, cwd, io_channel)
    IN  /\ LoopGuard
        /\ ~IsBlank(line)
        /\ r.consumed
        /\ messages' = r.st.messages
        /\ message_meta' = r.st.meta
        /\ chat_files' = r.st.fs.chat
        /\ pending_files' = r.st.fs.pending
        /\ model_ref' = r.st.model
        /\ last' = NoLast
        /\ loop' = IF r.raised THEN "crashed" ELSE "running"
        /\ log' = Append(log, LogEntry(line, TRUE, TRUE, 0))
        /\ tool_calls' = tool_calls \o r.calls
        /\ UNCHANGED <<frame, io_channel, agents, heap, project, obs,
                       system_prompt, disk, cwd, fres>>

\* the line is not a command: LLMBaseAgent.step. add_user_input assembles the
\* transcript and returns a bool, which `await` rejects with TypeError.
LoopStep(line) ==
    /\ LoopGuard
    /\ ~IsBlank(line)
    /\ ~try_execute_command(line, Cur, disk, cwd, io_channel).consumed
    /\ Assemble("add_user_input", line, messages, FALSE)
    /\ loop' = "crashed"
    /\ log' = Append(log, LogEntry(line, TRUE, FALSE, 1))
    /\ UNCHANGED <<frame, io_channel, tool_calls, agents, heap, project, obs,
                   model_ref, system_prompt, disk, cwd, fres>>

\* the input generator is exhausted
LoopEof ==
    /\ loop = "running"
    /\ loop' = "eof"
    /\ UNCHANGED <<frame, io_channel, tool_calls, agents, heap, project, obs,
                   messages, message_meta, chat_files, pending_files,
                   model_ref, system_prompt, disk, cwd, last, fres, log>>

\* ChatAgent(name, parser) leaves io_channel None (chat.py:9-25 passes none on
\* to LLMBaseAgent.__init__); a channel can only be assigned from outside
LoopInit ==
    /\ frame = NoFrame
    /\ io_channel \in { NoIoChannel, IoChannel }
    /\ messages = <<>>
    /\ message_meta = {}
    /\ chat_files = <<>>
    /\ pending_files = <<>>
    /\ model_ref = "ab"
    /\ system_prompt \in SystemPrompts
    /\ disk = [loc \in Locs |-> Absent]
    /\ cwd = Workspace
    /\ last = NoLast
    /\ fres = NoFres
    /\ loop = "running"
    /\ log = <<>>
    /\ tool_calls = <<>>
    /\ agents = NoAgents
    /\ heap = NoHeap
    /\ project = NoProject
    /\ obs = NoObs

LoopNext ==
    \/ \E line \in Lines : LoopSkip(line)
    \/ \E line \in Lines : LoopCommand(line)
    \/ \E line \in Lines : LoopStep(line)
    \/ LoopEof
    \/ \E loc \in Locs : \E e \in Allowed(loc) : DiskChange(loc, e)

LoopSpec == LoopInit /\ [][LoopNext]_vars

\* what the loop itself does: the task is scheduled as long as it can run, and
\* the input generator, being finite, ends
LoopTurn ==
    \/ \E line \in Lines : LoopSkip(line)
    \/ \E line \in Lines : LoopCommand(line)
    \/ \E line \in Lines : LoopStep(line)
    \/ LoopEof

LoopLiveSpec == LoopSpec /\ WF_vars(LoopTurn)

-----------------------------------------------------------------------------
(* Two agents constructed side by side (LLMBaseAgent.__init__), their turns *)
(* and commands interleaved. Each has its own SimpleState and ChatFiles;    *)
(* `context` is the dict passed to the constructor, or the default `{}`,    *)
(* one object made when the `def` is evaluated.                             *)

Agents == { "A", "B" }

\* the dict objects: the default of the parameter and one per explicit argument
DefaultContext == "default"
OwnContext(n) == n
ContextObjs == { DefaultContext } \cup { OwnContext(n) : n \in Agents }
ContextKeys == { "commit_agent" }


\* LLMBaseAgent.__init__: self.context = context; a fresh state
NewAgent(ctx) ==
    [messages |-> <<>>, meta |-> {}, fs |-> FS(<<>>, <<>>), model |-> "ab",
     context |-> ctx]

AgentsInit ==
    /\ frame = NoFrame
    /\ io_channel = NoIoChannel
    /\ messages = <<>>
    /\ message_meta = {}
    /\ chat_files = <<>>
    /\ pending_files = <<>>
    /\ model_ref = "ab"
    /\ system_prompt = <<"S">>
    /\ disk = [loc \in Locs |-> Absent]
    /\ cwd = Workspace
    /\ last = NoLast
    /\ fres = NoFres
    /\ loop = "running"
    /\ log = <<>>
    /\ tool_calls = <<>>
    /\ \E c \in [Agents -> BOOLEAN] :
           agents = [n \in Agents |->
                        NewAgent(IF c[n] THEN OwnContext(n) ELSE DefaultContext)]
    /\ heap = [o \in ContextObjs |-> {}]
    /\ project = NoProject
    /\ obs = NoObs

AgentFrame ==
    UNCHANGED <<frame, io_channel, messages, message_meta, chat_files,
                pending_files, model_ref, system_prompt, disk, cwd, last, fres,
                loop, log, tool_calls, project, obs>>

\* agent n's state.add_user_input(u)
AgentAddUserInput(n, u) ==
    LET a == agents[n]
        r == _assemble_prompt(u, a.messages, a.meta, a.fs, system_prompt,
                              a.model, disk)
    IN  /\ Count(a.messages, IsUserInstruction) < MaxAgentTurns
        /\ agents' = [agents EXCEPT ![n] = [a EXCEPT !.messages = r.messages,
                                                     !.meta = r.meta,
                                                     !.fs = r.fs]]
        /\ UNCHANGED heap
        /\ AgentFrame

\* /add on agent n
AgentCmdAdd(n, path) ==
    /\ agents' = [agents EXCEPT ![n].fs =
                      add_by_names(<<path>>, agents[n].fs, disk, cwd).fs]
    /\ UNCHANGED heap
    /\ AgentFrame

\* /model on agent n
AgentCmdModel(n, m) ==
    /\ agents' = [agents EXCEPT ![n].model = m]
    /\ UNCHANGED heap
    /\ AgentFrame

\* /reset on agent n
AgentReset(n) ==
    /\ agents' = [agents EXCEPT ![n].messages = <<>>, ![n].meta = {},
                                ![n].fs = ChatFilesClear(agents[n].fs)]
    /\ UNCHANGED heap
    /\ AgentFrame

\* agent n's context[k] = v, written through its `context` attribute
AgentContextPut(n, k) ==
    /\ heap' = [heap EXCEPT ![agents[n].context] = @ \cup {k}]
    /\ UNCHANGED agents
    /\ AgentFrame

AgentsNext ==
    \E n \in Agents :
        \/ \E u \in { <<"u1">> } : AgentAddUserInput(n, u)
        \/ \E path \in { "/o/a" } : AgentCmdAdd(n, path)
        \/ \E m \in { "ab", "b" } : AgentCmdModel(n, m)
        \/ AgentReset(n)
        \/ \E k \in ContextKeys : AgentContextPut(n, k)

AgentsSpec == AgentsInit /\ [][AgentsNext]_vars

-----------------------------------------------------------------------------
(* CoderState: the candidate list with the items of the project             *)
(* collaborator.                                                             *)

\* list.insert(i, x)
InsertAt(s, i, x) == SubSeq(s, 1, i) \o <<x>> \o SubSeq(s, i + 1, Len(s))

\* "\n".join(names)
RECURSIVE JoinLines(_)
JoinLines(names) ==
    IF names = <<>> THEN <<>>
    ELSE IF Len(names) = 1 THEN <<names[1]>>
    ELSE <<names[1], "\n">> \o JoinLines(Tail(names))

\* what get_repo_map(chat_files) gives when called without await: the
\* coroutine object
RepoMapValue == <<"coroutine">>

\* agent_config.repo_map, the tracked files of the workspace, and whether
\* there is a CoderState object at all
Projects ==
    [repo_map : BOOLEAN, tracked : { <<>>, <<"a", "b">> },
     constructed : BOOLEAN]
CoderPaths == { "d", "/o/a" }

\* CoderState._get_message_items behind the call of super(): g is what
\* SimpleState._get_message_items gave
CoderInsertItems(g, proj) ==
    LET insert_index == IF g.items # <<>> /\ g.items[1].typ = "system"
                        THEN 1 ELSE 0
        rm == proj.repo_map /\ "repo_map" \notin g.meta
        items1 == IF rm
                  THEN InsertAt(g.items, insert_index,
                                Item("repo_map", RepoMapValue))
                  ELSE g.items
        meta1 == IF rm THEN g.meta \cup {"repo_map"} ELSE g.meta
        fl == "file_list" \notin meta1
    IN  IF g.raised THEN g
        ELSE [items |-> IF fl
                        THEN InsertAt(items1, insert_index,
                                      Item("file_list",
                                           JoinLines(proj.tracked)))
                        ELSE items1,
              meta |-> IF fl THEN meta1 \cup {"file_list"} ELSE meta1,
              fs |-> g.fs, raised |-> FALSE]

\* CoderState._get_message_items
CoderState_get_message_items(user_input, meta, fs, sp, d, proj) ==
    CoderInsertItems(_get_message_items(user_input, meta, fs, sp, d), proj)

\* SimpleState._assemble_prompt behind the call of _get_message_items
CoderInject(g, msgs, model) ==
    IF g.raised
    THEN [messages |-> msgs, meta |-> g.meta, fs |-> g.fs, items |-> <<>>,
          has_new |-> FALSE, raised |-> TRUE, inject_tools_calls |-> 0]
    ELSE LET t == InjectTools(InjectModelPrompt(InjectItems(msgs, g.items),
                                                ModelPrompt, model))
         IN  [messages |-> t.messages, meta |-> g.meta, fs |-> g.fs,
              items |-> g.items, has_new |-> g.items # <<>>, raised |-> FALSE,
              inject_tools_calls |-> t.calls]

\* CoderState.__init__ as LLMBaseAgent.__init__ calls it: SimpleState.__init__
\* runs, then ProjectManager(self.workspace) raises TypeError, its `agent`
\* argument missing. No state object results (constructed is FALSE) and
\* nothing can be called on it. The other initial states are a CoderState on
\* which that call went through, ProjectManager(workspace, agent) and
\* set_candidate_generator behind it: the methods of the class run on these.
CoderInit ==
    /\ frame = NoFrame
    /\ io_channel = NoIoChannel
    /\ messages = <<>>
    /\ message_meta = {}
    /\ chat_files = <<>>
    /\ pending_files = <<>>
    /\ model_ref = "ab"
    /\ system_prompt \in SystemPrompts
    /\ disk = [loc \in Locs |-> Absent]
    /\ cwd = Workspace
    /\ last = NoLast
    /\ fres = NoFres
    /\ loop = "running"
    /\ log = <<>>
    /\ tool_calls = <<>>
    /\ agents = NoAgents
    /\ heap = NoHeap
    /\ project \in Projects
    /\ obs = NoObs

CoderFrame ==
    UNCHANGED <<frame, io_channel, model_ref, system_prompt, disk, cwd, last,
                fres, loop, log, tool_calls, agents, heap, project>>

CoderAssembled(op, r) ==
    /\ project.constructed
    /\ messages' = r.messages
    /\ message_meta' = r.meta
    /\ chat_files' = r.fs.chat
    /\ pending_files' = r.fs.pending
    /\ obs' = [op |-> op, items |-> r.items, raised |-> r.raised,
               pre_meta |-> message_meta,
               inject_tools_calls |-> r.inject_tools_calls]
    /\ CoderFrame

CoderAssemble(op, user_input, msgs) ==
    CoderAssembled(op, CoderInject(CoderState_get_message_items(
                                       user_input, message_meta, Fs,
                                       system_prompt, disk, project),
                                   msgs, model_ref))

CoderAddUserInput(u) ==
    /\ Count(messages, IsUserInstruction) < MaxTurns
    /\ CoderAssemble("add_user_input", u, messages)

CoderHandleResponse(content) ==
    /\ messages # <<>>
    /\ Count(messages, IsAssistant) < MaxRounds
    /\ CoderAssemble("handle_response", <<>>,
                     Append(messages, Msg("assistant", content, "")))

CoderReset ==
    /\ project.constructed
    /\ messages' = <<>>
    /\ message_meta' = {}
    /\ chat_files' = ChatFilesClear(Fs).chat
    /\ pending_files' = ChatFilesClear(Fs).pending
    /\ obs' = [op |-> "reset"]
    /\ CoderFrame

CoderCmdAdd(args) ==
    LET r == add_by_names(args, Fs, disk, cwd)
    IN  /\ project.constructed
        /\ chat_files' = r.fs.chat
        /\ pending_files' = r.fs.pending
        /\ obs' = [op |-> "add"]
        /\ UNCHANGED <<messages, message_meta>>
        /\ CoderFrame

CoderCmdDrop(args) ==
    LET r == ChatFilesRemove(Fs, normalize(args[1]))
    IN  /\ project.constructed
        /\ chat_files' = r.chat
        /\ pending_files' = r.pending
        /\ obs' = [op |-> "drop"]
        /\ UNCHANGED <<messages, message_meta>>
        /\ CoderFrame

CoderNext ==
    \/ \E u \in Inputs : CoderAddUserInput(u)
    \/ CoderHandleResponse(<<"r">>)
    \/ CoderReset
    \/ \E path \in CoderPaths : CoderCmdAdd(<<path>>)
    \/ \E path \in CoderPaths : CoderCmdDrop(<<path>>)

CoderSpec == CoderInit /\ [][CoderNext]_vars

-----------------------------------------------------------------------------
(* The commands beside the turn loop: completion of a partly typed line and  *)
(* /save. Each is one call on a fresh session.                               *)

\* The typed text, letter by letter.
TextChars == { "/", " ", "d", "e", "o" }
Texts == UNION { [1..n -> TextChars] : n \in 0..MaxText }

\* command_manager.command_names(): the registered aliases, letter by letter
command_names ==
    { <<"a", "d", "d">>, <<"d", "r", "o", "p">>, <<"m", "o", "d", "e", "l">>,
      <<"r", "e", "s", "e", "t">>, <<"s", "a", "v", "e">> }

\* name in candidate
IsSubstring(name, candidate) ==
    \E k \in 0..(Len(candidate) - Len(name)) :
        SubSeq(candidate, k + 1, k + Len(name)) = name

\* CommandCompleter._get_completions: the candidates yielded, and whether
\* the call was handed on to the completer of the command
_get_completions(text) ==
    LET c == parse_cmdline(text)
    IN  IF ~c.is_cmd \/ c.name = <<>>
        THEN [delegated |-> FALSE, candidates |-> {}]
        ELSE IF ~c.has_arg
        THEN [delegated |-> FALSE,
              candidates |-> { candidate \in command_names :
                                   IsSubstring(c.name, candidate) }]
        ELSE [delegated |-> TRUE, candidates |-> {}]

\* the two tags of the pattern, tag_name being f"{agent.name}_content"
OpenTag == "<main_content>"
CloseTag == "</main_content>"
\* f"{agent.name}_output.md"
default_file == "main_output.md"

\* agent.last_message(): the text of the last message, in tokens
MsgTokens == { OpenTag, CloseTag, "x", "\n" }
LastMessages == UNION { [1..n -> MsgTokens] : n \in 0..MaxMsgLen }

SaveArgs == { "", "f", "d", "/o/a" }

SetMin(S) == CHOOSE x \in S : \A y \in S : x <= y

\* re.search(rf"<{tag_name}>(.*?)</{tag_name}>", content_msg, re.DOTALL):
\* the leftmost opening tag with a closing tag behind it, up to the nearest
\* closing tag; a line break is a character like any other
Search(content_msg) ==
    LET starts == { i \in 1..Len(content_msg) :
                        /\ content_msg[i] = OpenTag
                        /\ \E j \in (i + 1)..Len(content_msg) :
                               content_msg[j] = CloseTag }
    IN  IF starts = {} THEN [match |-> FALSE, group |-> <<>>]
        ELSE [match |-> TRUE,
              group |-> SubSeq(content_msg, SetMin(starts) + 1,
                               SetMin({ j \in (SetMin(starts) + 1)
                                                ..Len(content_msg) :
                                            content_msg[j] = CloseTag }) - 1)]

\* SaveCommand._save_content up to the open of the file: the text to write
\* and the path
SaveResult(content_msg) ==
    IF Search(content_msg).match THEN Search(content_msg).group
    ELSE content_msg

\* output_path.open("w") and f.write(result): a directory cannot be opened
WriteFile(d, output_path, result) ==
    IF Lookup(d, output_path.parts).kind = "dir"
    THEN [raised |-> TRUE, disk |-> d]
    ELSE [raised |-> FALSE,
          disk |-> [loc \in DOMAIN d \cup { output_path.parts } |->
                        IF loc = output_path.parts THEN File(result)
                        ELSE d[loc]]]

Saving(output_path) == [text |-> "Saving content to", path |-> output_path]
Saved(output_file) == [text |-> "Saved to", file |-> output_file]

\* the agent the commands run on: one built by ChatAgent, which has no
\* channel, or one that was given a channel,
\* LLMBaseAgent(name, parser, io_channel=channel)
CommandsInit ==
    /\ frame = NoFrame
    /\ io_channel \in { NoIoChannel, IoChannel }
    /\ messages = <<>>
    /\ message_meta = {}
    /\ chat_files = <<>>
    /\ pending_files = <<>>
    /\ model_ref = "ab"
    /\ system_prompt = <<"S">>
    /\ disk = [loc \in Locs |-> Absent]
    /\ cwd = Workspace
    /\ last = NoLast
    /\ fres = NoFres
    /\ loop = "running"
    /\ log = <<>>
    /\ tool_calls = <<>>
    /\ agents = NoAgents
    /\ heap = NoHeap
    /\ project = NoProject
    /\ obs = NoObs

\* CommandCompleter._get_completions(text)
Complete(text) ==
    /\ obs = NoObs
    /\ frame = NoFrame
    /\ obs' = [op |-> "complete", text |-> text,
               delegated |-> _get_completions(text).delegated,
               candidates |-> _get_completions(text).candidates]
    /\ UNCHANGED <<frame, io_channel, tool_calls, agents, heap, project,
                   messages, message_meta, chat_files, pending_files,
                   model_ref, system_prompt, disk, cwd, last, fres, loop, log>>

\* what /info, /save and /commit never touch
CommandFrame ==
    UNCHANGED <<io_channel, tool_calls, agents, heap, project, messages,
                message_meta, chat_files, pending_files, model_ref,
                system_prompt, cwd, fres, loop, log>>

\* SaveCommand.execute(name, arg) with last_message as the last message, up
\* to the first write: the file name, the text and the path are taken and
\* _save_content awaits io_channel.write("Saving content to ..."), the file
\* not opened yet; without a channel the write raises AttributeError.
\* has_arg is false for an argument of None
SaveSaving(has_arg, arg, last_message) ==
    LET output_file == IF has_arg /\ arg # "" THEN arg ELSE default_file
        output_path == Join(Workspace, PathOf(output_file))
    IN  /\ frame = NoFrame
        /\ last' = [NoLast EXCEPT !.op = "save"]
        /\ IF WriteRaises(io_channel)
           THEN /\ obs' = [op |-> "save", has_arg |-> has_arg, arg |-> arg,
                           last_message |-> last_message,
                           path |-> output_path, raised |-> TRUE,
                           written |-> <<>>]
                /\ frame' = NoFrame
           ELSE /\ obs' = obs
                /\ frame' = [pc |-> "saving", i |-> 0,
                             written |-> <<Saving(output_path)>>,
                             has_arg |-> has_arg, arg |-> arg,
                             last_message |-> last_message,
                             output_file |-> output_file,
                             output_path |-> output_path,
                             result |-> SaveResult(last_message)]
        /\ UNCHANGED disk
        /\ CommandFrame

\* ... resumed behind that write: the file is opened and written as the disk
\* is now (a directory raises IsADirectoryError), _save_content returns and
\* execute writes "Saved to ..."
SaveWrite ==
    /\ frame.pc = "saving"
    /\ last' = [NoLast EXCEPT !.op = "save"]
    /\ LET w == WriteFile(disk, frame.output_path, frame.result)
       IN  /\ disk' = w.disk
           /\ obs' = [op |-> "save", has_arg |-> frame.has_arg,
                      arg |-> frame.arg,
                      last_message |-> frame.last_message,
                      path |-> frame.output_path, raised |-> w.raised,
                      written |-> IF w.raised THEN frame.written
                                  ELSE Append(frame.written,
                                              Saved(frame.output_file))]
    /\ frame' = NoFrame
    /\ CommandFrame

\* SaveCommand.execute, from one await to the next
SaveCommandExecute(has_arg, arg, last_message) ==
    \/ SaveSaving(has_arg, arg, last_message)
    \/ SaveWrite

\* one completion or one /save on the agent as constructed
CommandsNext ==
    \/ \E text \in Texts : Complete(text)
    \/ /\ obs = NoObs
       /\ \E m \in LastMessages :
              \/ SaveSaving(FALSE, "", m)
              \/ \E arg \in SaveArgs : SaveSaving(TRUE, arg, m)
    \/ SaveWrite

CommandsSpec == CommandsInit /\ [][CommandsNext]_vars

-----------------------------------------------------------------------------
(* /info, /save and /commit issued within a session: between the turns, the  *)
(* responses and /add of SimpleState. `last` names the step taken, `obs`     *)
(* holds what the command wrote and did.                                     *)



\* the agent of the session: one built by ChatAgent, which has no channel,
\* or one that was given a channel to write its notices to
SessionInit ==
    /\ frame = NoFrame
    /\ io_channel \in { NoIoChannel, IoChannel }
    /\ messages = <<>>
    /\ message_meta = {}
    /\ chat_files = <<>>
    /\ pending_files = <<>>
    \* the model reference of the configuration: one with a provider model
    \* of its own, one without
    /\ model_ref \in { "ab", "b" }
    /\ system_prompt = <<"S">>
    /\ disk \in [Locs -> { Absent, File(<<"x">>) }]
    /\ cwd = Workspace
    /\ last = NoLast
    /\ fres = NoFres
    /\ loop = "running"
    /\ log = <<>>
    /\ tool_calls = <<>>
    /\ agents = NoAgents
    \* the context of the agent: with or without a commit agent
    /\ heap \in [{ DefaultContext } -> SUBSET ContextKeys]
    /\ project = NoProject
    /\ obs = NoObs

\* the lines InfoCommand.execute writes
InfoLine(text, value) == [text |-> text, value |-> value]

\* InfoCommand.execute up to its first write: it reads agent.provider_model
\* and writes it; without a channel the write raises AttributeError
InfoModel ==
    /\ frame = NoFrame
    /\ last' = [NoLast EXCEPT !.op = "info"]
    /\ IF WriteRaises(io_channel)
       THEN /\ obs' = [op |-> "info", written |-> <<>>, raised |-> TRUE]
            /\ frame' = NoFrame
       ELSE /\ obs' = obs
            /\ frame' = [pc |-> "model", i |-> 0,
                        written |-> <<InfoLine("Current model:",
                                             <<provider_model(model_ref)>>)>>]
    /\ UNCHANGED disk
    /\ CommandFrame

\* /info that reads the committed files to report them
InfoListReadingFiles ==
    /\ frame.pc = "model"
    /\ last' = [NoLast EXCEPT !.op = "info"]
    /\ frame' = IF chat_files # <<>>
               THEN [pc |-> "files", i |-> 0,
                     written |-> Append(frame.written,
                                        InfoLine("Chat files",
                                                 <<Len(chat_files)>>))]
               ELSE [pc |-> "end", i |-> 0,
                     written |-> Append(frame.written,
                                       InfoLine("No chat files currently loaded.",
                                                <<>>))]
    /\ pending_files' = ChatFilesClearPending(Fs).pending
    /\ UNCHANGED <<io_channel, tool_calls, agents, heap, project, messages,
                   message_meta, chat_files, model_ref, system_prompt, disk,
                   cwd, fres, loop, log, obs>>

\* ... resumed behind the first write: chat_files.list() is read and the
\* header, or the notice that there is none, is written
InfoList ==
    /\ frame.pc = "model"
    /\ last' = [NoLast EXCEPT !.op = "info"]
    /\ frame' = IF chat_files # <<>>
               THEN [pc |-> "files", i |-> 0,
                     written |-> Append(frame.written,
                                        InfoLine("Chat files",
                                                 <<Len(chat_files)>>))]
               ELSE [pc |-> "end", i |-> 0,
                     written |-> Append(frame.written,
                                       InfoLine("No chat files currently loaded.",
                                                <<>>))]
    /\ UNCHANGED obs
    /\ UNCHANGED disk
    /\ CommandFrame

\* ... resumed behind a write inside `for file_path in chat_files`: the
\* iterator takes the next element of the list as it is now, which is the
\* list of the state itself (list() returns self._chat_files)
InfoFile ==
    /\ frame.pc = "files"
    /\ frame.i < Len(chat_files)
    /\ last' = [NoLast EXCEPT !.op = "info"]
    /\ frame' = [pc |-> "files", i |-> frame.i + 1,
                written |-> Append(frame.written,
                                   InfoLine("  - ", chat_files[frame.i + 1]))]
    /\ UNCHANGED obs
    /\ UNCHANGED disk
    /\ CommandFrame

\* ... resumed behind its last write: the loop is exhausted, execute returns
InfoReturn ==
    /\ \/ frame.pc = "end"
       \/ frame.pc = "files" /\ frame.i >= Len(chat_files)
    /\ last' = [NoLast EXCEPT !.op = "info"]
    /\ obs' = [op |-> "info", written |-> frame.written, raised |-> FALSE]
    /\ frame' = NoFrame
    /\ UNCHANGED disk
    /\ CommandFrame

\* InfoCommand.execute, from one await to the next
CmdInfo == InfoModel \/ InfoList \/ InfoFile \/ InfoReturn

NoCommitAgent == [text |-> "No commit agent, ignoring."]

\* CommitCommand.execute up to its first await. Without a commit agent in
\* the context that is the write of the notice (AttributeError without a
\* channel); with one it is the call of auto_commit_changes
CommitStart ==
    /\ frame = NoFrame
    /\ last' = [NoLast EXCEPT !.op = "commit"]
    /\ IF "commit_agent" \in heap[DefaultContext]
       THEN /\ obs' = obs
            /\ frame' = [pc |-> "committed", i |-> 0, written |-> <<>>,
                         commits |-> 1]
       ELSE IF WriteRaises(io_channel)
       THEN /\ obs' = [op |-> "commit", written |-> <<>>, commits |-> 0,
                       raised |-> TRUE]
            /\ frame' = NoFrame
       ELSE /\ obs' = obs
            /\ frame' = [pc |-> "noticed", i |-> 0,
                         written |-> <<NoCommitAgent>>, commits |-> 0]
    /\ UNCHANGED disk
    /\ CommandFrame

\* ... resumed behind the notice: the branch does not return, and
\* commit_agent.auto_commit_changes() on None raises AttributeError
CommitCall ==
    /\ frame.pc = "noticed"
    /\ last' = [NoLast EXCEPT !.op = "commit"]
    /\ obs' = [op |-> "commit", written |-> frame.written,
               commits |-> frame.commits, raised |-> TRUE]
    /\ frame' = NoFrame
    /\ UNCHANGED disk
    /\ CommandFrame

\* ... resumed with the result of auto_commit_changes, which is written
CommitResult ==
    /\ frame.pc = "committed"
    /\ last' = [NoLast EXCEPT !.op = "commit"]
    /\ obs' = IF WriteRaises(io_channel)
              THEN [op |-> "commit", written |-> frame.written,
                    commits |-> frame.commits, raised |-> TRUE]
              ELSE [op |-> "commit",
                    written |-> Append(frame.written, [text |-> "result"]),
                    commits |-> frame.commits, raised |-> FALSE]
    /\ frame' = NoFrame
    /\ UNCHANGED disk
    /\ CommandFrame

\* CommitCommand.execute, from one await to the next
CmdCommit == CommitStart \/ CommitCall \/ CommitResult

SessionNext ==
    \/ \E u \in { <<"u1">> } : AddUserInput(u)
    \/ \E continu \in BOOLEAN : HandleResponse(<<"r">>, continu)
    \/ CmdAdd(<<"a">>)
    \/ CmdDrop(<<"a">>)
    \/ CmdInfo
    \/ \E m \in { <<"m">>, <<OpenTag, "x", CloseTag>> } :
           \/ SaveCommandExecute(FALSE, "", m)
           \/ \E arg \in { "a" } : SaveCommandExecute(TRUE, arg, m)
    \/ CmdCommit

SessionSpec == SessionInit /\ [][SessionNext]_vars

-----------------------------------------------------------------------------
(* The claims *)

NoDup(s) == \A i, j \in 1..Len(s) : i # j => s[i] # s[j]
IsFiles(m) == m.typ = "files"
IsModelPrompt(m) == m.typ = "model_prompt"
NotModelPrompt(m) == m.typ # "model_prompt"
IsSystem(m) == m.role = "system"
UserMsgs(msgs) == SelectSeq(msgs, IsUserInstruction)

\* the last operation was an assembly that returned
Assembled == last.op \in { "add_user_input", "handle_response" } /\ ~last.raised

\* that assembly had the files item among its candidates
FilesIncluded == last.input # <<>> \/ last.had_pending

\* some configured pattern matches the model
Matches(model) ==
    \E i \in 1..Len(ModelPrompt) : re_search(ModelPrompt[i].pattern, model)

FirstMatch(model) ==
    CHOOSE i \in 1..Len(ModelPrompt) :
        /\ re_search(ModelPrompt[i].pattern, model)
        /\ \A j \in 1..(i - 1) : ~re_search(ModelPrompt[j].pattern, model)

\* the messages of the transcript before the assembly that the assembly keeps
PreKept ==
    SelectSeq(last.pre,
              LAMBDA m : ~IsFiles(m) /\ (IsModelPrompt(m) => ~Matches(model_ref)))

\* what the committed files hold on disk now
EntryOf(f) == Lookup(disk, Join(Workspace, f).parts)
CurrentFilesText == ReadLoop(chat_files, disk, <<>>, <<>>).text

\* C1: whatever ChatFiles operations are called (add, add_by_names, remove,
\* clear, clear_pending, read_files), every pending file is a committed file and
\* neither list holds an entry twice.
C1_PendingSubsetOfCommitted ==
    /\ \A i \in 1..Len(pending_files) : Contains(chat_files, pending_files[i])
    /\ NoDup(chat_files)
    /\ NoDup(pending_files)

\* a remove took one of two pending files out of three committed ones
C1_Witness ==
    /\ fres.op = "remove"
    /\ Len(fres.pre.chat) = 3
    /\ Len(fres.pre.pending) = 2
    /\ Len(chat_files) = 2
    /\ Len(pending_files) = 1

\* C2: in every reachable state of the transcript (user turns, re-assemblies with
\* empty input, /add, /drop, /model, /reset, files changing on disk) at most one
\* message is tagged `files`.
C2_AtMostOneFilesMessage == Count(messages, IsFiles) <= 1

\* a re-assembly with empty input found a files message in the transcript and a
\* pending file, and left one files message
C2_Witness ==
    /\ last.op = "handle_response"
    /\ ~last.raised
    /\ last.had_pending
    /\ Count(last.pre, IsFiles) = 1
    /\ Count(messages, IsFiles) = 1

C4_FilesMessageReplacedLater ==
    (Assembled /\ FilesIncluded) =>
        /\ Len(PreKept) <= Len(messages)
        /\ SubSeq(messages, 1, Len(PreKept)) = PreKept
        /\ \A i \in 1..Len(messages) : IsFiles(messages[i]) => i > Len(PreKept)

\* the file's content changed: the old files message, which was not the last
\* message, is replaced by one with another content
C4_Witness ==
    /\ Assembled
    /\ FilesIncluded
    /\ \E i \in 1..Len(last.pre) : \E j \in 1..Len(messages) :
           /\ IsFiles(last.pre[i])
           /\ i < Len(last.pre)
           /\ IsFiles(messages[j])
           /\ messages[j].content # last.pre[i].content
           /\ j > i

\* C5: no reachable transcript holds two `model_prompt` messages, and after an
\* assembly under a model that some configured pattern matches the one
\* `model_prompt` message carries the prompt of the first matching pair.
C5_OneLiveModelPrompt ==
    /\ Count(messages, IsModelPrompt) <= 1
    /\ (Assembled /\ Matches(model_ref)) =>
           SelectSeq(messages, IsModelPrompt) =
               <<Msg("user", ModelPrompt[FirstMatch(model_ref)].prompt, "model_prompt")>>

\* the model was switched between two assemblies: the first pair's prompt was
\* live before, the second pair's is live now
C5_Witness ==
    /\ Assembled
    /\ \E i \in 1..Len(last.pre) :
           IsModelPrompt(last.pre[i]) /\ last.pre[i].content = ModelPrompt[1].prompt
    /\ \E j \in 1..Len(messages) :
           IsModelPrompt(messages[j]) /\ messages[j].content = ModelPrompt[2].prompt

\* C6: of the lines the turn loop has taken, each line starting with `/` was
\* consumed by the dispatcher and never given to step, and each non-blank line
\* not starting with `/` was not consumed as a command and given to step once.
C6_SlashLinesConsumed ==
    \A i \in 1..Len(log) :
        LET e == log[i]
        IN  /\ StartsWithSlash(e.line) => (e.consumed /\ e.steps = 0)
            /\ (~IsBlank(e.line) /\ ~StartsWithSlash(e.line))
                   => (~e.consumed /\ e.steps = 1)

\* an unregistered command was consumed and a chat line went to step
C6_Witness ==
    \E i, j \in 1..Len(log) :
        /\ log[i].line = <<"/", "bogus">>
        /\ log[i].consumed
        /\ log[i].steps = 0
        /\ log[j].line = <<"hi">>
        /\ log[j].steps = 1

\* C7: a user-input assembly that returns appends exactly one user-instruction
\* message, its content the raw input, after the earlier ones, which stay as they are;
\* every other operation but reset leaves the user-instruction messages as they
\* are.
C7_UserTurnsPreserved ==
    [][ IF last'.op = "add_user_input" /\ ~last'.raised
        THEN UserMsgs(messages') =
                 Append(UserMsgs(messages),
                        Msg("user", last'.input, ""))
        ELSE IF last'.op = "reset" THEN UserMsgs(messages') = <<>>
        ELSE UserMsgs(messages') = UserMsgs(messages) ]_vars

\* the same input was given twice and stands twice in the transcript
C7_Witness ==
    /\ last.op = "add_user_input"
    /\ ~last.raised
    /\ Len(UserMsgs(messages)) = 2
    /\ UserMsgs(messages)[1] = UserMsgs(messages)[2]
    /\ UserMsgs(messages)[2].content = last.input

\* C8: an assembly with user input or with a pending file reads the committed
\* files again (the files message is the fresh read, nothing stays pending); an
\* assembly with empty input and nothing pending leaves every message but the
\* model prompt, the files message among them, as it was.
C8_FilesItemIffPendingOrInput ==
    Assembled =>
        IF FilesIncluded
        THEN /\ SelectSeq(messages, IsFiles) =
                    (IF CurrentFilesText = <<>> THEN <<>>
                     ELSE <<Msg("user", CurrentFilesText, "files")>>)
             /\ pending_files = <<>>
        ELSE /\ SelectSeq(messages, NotModelPrompt) = SelectSeq(last.pre, NotModelPrompt)
             /\ pending_files = <<>>

\* a re-assembly with empty input and nothing pending kept a files message that
\* no longer agrees with the disk
C8_Witness ==
    /\ last.op = "handle_response"
    /\ ~last.raised
    /\ ~last.had_pending
    /\ \E i \in 1..Len(messages) :
           /\ IsFiles(messages[i])
           /\ messages[i].content # CurrentFilesText

\* every committed file yields empty content: missing, or an empty file
AllEmptyContent ==
    \A i \in 1..Len(chat_files) :
        EntryOf(chat_files[i]).kind # "dir" /\ EntryOf(chat_files[i]).content = <<>>

FreshUserTurn ==
    /\ last.op = "add_user_input"
    /\ ~last.raised
    /\ last.pre = <<>>
    /\ last.pre_meta = {}
    /\ system_prompt # <<>>
    /\ chat_files = <<>>

\* C9 (the claim as stated): when the committed set is empty or every committed
\* file yields empty content, the transcript an assembly leaves holds no files
\* message; on a fresh session with system prompt S the first user turn U
\* gives exactly [system:S, user:U]; a user turn with nothing committed leaves
\* no files message.
C9_NoFilesMessageWhenNothingToRead ==
    /\ (Assembled /\ AllEmptyContent) => Count(messages, IsFiles) = 0
    /\ FreshUserTurn =>
           messages = <<Msg("system", system_prompt, ""),
                        Msg("user", last.input, "")>>
    /\ (last.op = "add_user_input" /\ ~last.raised /\ chat_files = <<>>) =>
           Count(messages, IsFiles) = 0

\* the location the path names, resolved against the workspace root, exists
ExistsInWorkspace(path) == EntryOf(normalize(path)).kind # "absent"

\* C10 (the claim as stated): add_by_names reports a path in `succeed`, and has
\* it committed and pending, when its location under the workspace root exists,
\* and in `not_exist` otherwise, whatever the current directory.
C10_ClassifiedByWorkspaceLocation ==
    fres.op = "add_by_names" =>
        \A i \in 1..Len(fres.paths) :
            LET path == fres.paths[i]
            IN  IF ExistsInWorkspace(path)
                THEN /\ Contains(fres.succeed, path)
                     /\ ~Contains(fres.not_exist, path)
                     /\ Contains(chat_files, normalize(path))
                     /\ Contains(pending_files, normalize(path))
                ELSE /\ Contains(fres.not_exist, path)
                     /\ ~Contains(fres.succeed, path)

-----------------------------------------------------------------------------
(* read_files, reset, the value of an assembly *)

\* the block occurs somewhere in the text
Occurs(block, text) ==
    \E k \in 0..(Len(text) - Len(block)) :
        SubSeq(text, k + 1, k + Len(block)) = block

\* the committed entry is something on disk that is not missing
OnDisk(f) == EntryOf(f).kind # "absent"

\* C11 (the claim as stated): whenever read_files is called it returns, with a
\* block for every committed file that is on disk (pending or not) and these
\* files as its list, leaves the committed list as it was and nothing pending;
\* with nothing committed it returns the empty text and the empty list.
C11_ReadFilesReadsAllCommitted ==
    fres.op = "read_files" =>
        /\ ~fres.raised
        /\ chat_files = fres.pre.chat
        /\ pending_files = <<>>
        /\ fres.fpaths = SelectSeq(fres.pre.chat, OnDisk)
        /\ \A i \in 1..Len(fres.fpaths) :
               Occurs(FileBlock(fres.fpaths[i], EntryOf(fres.fpaths[i]).content),
                      fres.text)
        /\ fres.pre.chat = <<>> => (fres.text = <<>> /\ fres.fpaths = <<>>)

\* the transcript and the flags are as a reset leaves them
AsAfterReset(msgs, meta) == msgs = <<>> /\ meta = {}

\* C12 (the claim as stated): reset leaves the transcript, the flags and both
\* file lists empty, and the first assembly on a state as reset leaves it, with
\* a system prompt configured, gives a transcript with exactly one system
\* message.
C12_ResetThenSystemPromptAgain ==
    /\ last.op = "reset" =>
           /\ AsAfterReset(messages, message_meta)
           /\ chat_files = <<>>
           /\ pending_files = <<>>
    /\ ( /\ last.op = "add_user_input"
         /\ AsAfterReset(last.pre, last.pre_meta)
         /\ system_prompt # <<>> )
           => Count(messages, IsSystem) = 1

\* C13 (the claim as stated): handle_response asks for another completion
\* round if and only if its re-assembly with empty input produced new content.
C13_AnotherRoundIffNewContent ==
    (last.op = "handle_response" /\ ~last.raised) => (last.ret <=> last.has_new)

\* the messages of the transcript before the assembly that are not replaced
KeptBefore ==
    SelectSeq(last.pre,
              LAMBDA m : NotModelPrompt(m) /\ (FilesIncluded => ~IsFiles(m)))

\* the assembly appended a system, files or user message
ItemInjected == Len(SelectSeq(messages, NotModelPrompt)) > Len(KeptBefore)

\* the assembly changed which model prompt is live
ModelPromptChanged ==
    SelectSeq(messages, IsModelPrompt) # SelectSeq(last.pre, IsModelPrompt)

\* C14 (the claim as stated): the value an assembly returns is true exactly
\* when the call appended an item to the transcript or changed the live model
\* prompt.
C14_HasNewIffInjected ==
    Assembled => (last.has_new <=> (ItemInjected \/ ModelPromptChanged))

-----------------------------------------------------------------------------
(* The turn loop and the commands *)

\* C15 (the claim as stated): when step aborts with an error after the
\* assembly appended its items, the transcript, the flags and the pending list
\* are as they were before the assembly.
C15_AbortedTurnLeavesNoTrace ==
    ( /\ loop = "crashed"
      /\ log # <<>>
      /\ log[Len(log)].steps = 1
      /\ last.op = "add_user_input" )
        => /\ messages = last.pre
           /\ message_meta = last.pre_meta
           /\ (pending_files # <<>>) <=> last.had_pending

\* what agent n can observe of itself
View(n) == [state |-> agents[n], context |-> heap[agents[n].context]]

\* C16 (the claim as stated): every step is the operation of one agent and
\* leaves the transcript, flags, file lists, model and context mapping of every
\* other agent as they were.
C16_AgentsShareNoMutableState ==
    [][ \E n \in Agents : \A o \in Agents \ { n } : View(o)' = View(o) ]_vars

\* the step took a line from the input and gave it to the dispatcher
Took(l, l2) == Len(l2) = Len(l) + 1 /\ l2[Len(l2)].tried

\* the words after the command name
ArgWords(line) == Words(SplitSpaces(parse_cmdline(line).arg))

\* the line is the command `name` with at least one argument, none empty
HasFileArgs(line, name) ==
    LET c == parse_cmdline(line)
    IN  /\ c.is_cmd
        /\ c.name = name
        /\ c.has_arg
        /\ \A i \in 1..Len(ArgWords(line)) : ArgWords(line)[i] # ""

\* the line is /add or /drop without a file argument: no argument text, an
\* empty one, or an empty word
NoFileArg(line) ==
    LET c == parse_cmdline(line)
    IN  /\ c.is_cmd
        /\ c.name \in { <<"add">>, <<"drop">> }
        /\ (~c.has_arg \/ \E i \in 1..Len(ArgWords(line)) : ArgWords(line)[i] = "")

\* C17 (the claim as stated): /drop with arguments a1..ak finishes without
\* raising; afterwards none of the normalized arguments is committed or
\* pending and every other committed file is still committed.
C17_DropRemovesEveryArgument ==
    [][ (Took(log, log') /\ HasFileArgs(log'[Len(log')].line, <<"drop">>)) =>
            LET files == ArgWords(log'[Len(log')].line)
                dropped == { normalize(files[i]) : i \in 1..Len(files) }
            IN  /\ loop' = "running"
                /\ \A f \in dropped :
                       ~Contains(chat_files', f) /\ ~Contains(pending_files', f)
                /\ \A i \in 1..Len(chat_files) :
                       chat_files[i] \notin dropped
                           => Contains(chat_files', chat_files[i]) ]_vars

\* C18 (the claim as stated): /add or /drop without a file argument raises
\* nothing and leaves the committed and the pending list as they were.
C18_MissingFileArgumentNotRaised ==
    [][ (Took(log, log') /\ NoFileArg(log'[Len(log')].line)) =>
            /\ loop' = "running"
            /\ chat_files' = chat_files
            /\ pending_files' = pending_files ]_vars

\* the line is the /model command
IsModelLine(line) ==
    parse_cmdline(line).is_cmd /\ parse_cmdline(line).name = <<"model">>

\* C19 (the claim as stated): /model without an argument, or with an empty
\* one, writes its notice and raises nothing and
\* leaves the model reference, the transcript, the flags and the file lists as
\* they were; with an argument it raises nothing and the argument is the model
\* reference afterwards.
C19_ModelNeedsArgument ==
    [][ (Took(log, log') /\ IsModelLine(log'[Len(log')].line)) =>
            LET c == parse_cmdline(log'[Len(log')].line)
            IN  /\ loop' = "running"
                /\ UNCHANGED <<messages, message_meta, chat_files, pending_files>>
                /\ IF ~c.has_arg \/ c.arg = <<>>
                   THEN model_ref' = model_ref
                   ELSE model_ref' = Str(c.arg) ]_vars

\* the line is /invoke-tool <name>, or /invoke-tool <name> <json object>
IsInvokeLine(line) ==
    LET c == parse_cmdline(line)
        parts == SplitMax1(c.arg)
    IN  /\ c.is_cmd
        /\ c.name = <<"invoke-tool">>
        /\ c.has_arg
        /\ Len(parts) >= 1
        /\ Len(parts) = 2 => json_loads(Text(parts[2])).kind = "object"

\* C20 (the claim as stated): /invoke-tool with a tool name and a valid JSON
\* object forwards exactly one tool call, with that name and that object as
\* arguments; without JSON text the arguments are the empty object.
C20_InvokeToolForwardsArguments ==
    [][ (Took(log, log') /\ IsInvokeLine(log'[Len(log')].line)) =>
            LET parts == SplitMax1(parse_cmdline(log'[Len(log')].line).arg)
                given == IF Len(parts) = 2 THEN json_loads(Text(parts[2])).value
                         ELSE {}
            IN  /\ Len(tool_calls') = Len(tool_calls) + 1
                /\ SubSeq(tool_calls', 1, Len(tool_calls)) = tool_calls
                /\ tool_calls'[Len(tool_calls')].name = Text(parts[1])
                /\ json_loads(tool_calls'[Len(tool_calls')].arguments) =
                       JsonObject(given) ]_vars

-----------------------------------------------------------------------------
(* Missing files, replace-by-tag, add and remove *)

IsRegularFile(f) == EntryOf(f).kind = "file"
IsMissing(f) == EntryOf(f).kind = "absent"

\* the line that opens a file's block in the text of read_files
FileHeader(f) == <<"\n====FILE: ">> \o PathTokens(f) \o <<"====\n">>

\* C26 (the claim as stated): read_files, the part of an assembly that reads
\* the committed files, never raises because a committed file cannot be read:
\* the call returns, the list it returns holds the committed files that can be
\* read, in order, the text holds the block of each of them and none of a
\* missing file, nothing is pending afterwards and the committed list, the
\* missing files included, is as it was.
C26_MissingFileSkipped ==
    fres.op = "read_files" =>
        /\ ~fres.raised
        /\ fres.fpaths = SelectSeq(fres.pre.chat, IsRegularFile)
        /\ \A i \in 1..Len(fres.fpaths) :
               Occurs(FileBlock(fres.fpaths[i], EntryOf(fres.fpaths[i]).content),
                      fres.text)
        /\ \A i \in 1..Len(fres.pre.chat) :
               IsMissing(fres.pre.chat[i]) =>
                   ~Occurs(FileHeader(fres.pre.chat[i]), fres.text)
        /\ pending_files = <<>>
        /\ chat_files = fres.pre.chat

\* C27 (the claim as stated): after every assembly that returns, a
\* `model_prompt` message is in the transcript if and only if some configured
\* pattern matches the active model.
C27_ModelPromptIffPatternMatches ==
    Assembled => (Count(messages, IsModelPrompt) >= 1 <=> Matches(model_ref))

IsUntagged(m) == m.typ \notin { "files", "model_prompt" }

\* C28: no step but a reset removes or reorders a message that is tagged
\* neither `files` nor `model_prompt`: these messages before the step are the
\* first of these messages after it.
C28_UntaggedMessagesKept ==
    [][ last'.op # "reset" =>
            LET old == SelectSeq(messages, IsUntagged)
                new == SelectSeq(messages', IsUntagged)
            IN  Len(old) <= Len(new) /\ SubSeq(new, 1, Len(old)) = old ]_vars

\* an assembly removed the files and model-prompt messages that stood between
\* a system, two user and an assistant message, which are all still there
C28_Witness ==
    /\ Assembled
    /\ Count(messages, IsFiles) = 0
    /\ \E i \in 1..Len(last.pre) :
           IsFiles(last.pre[i]) /\ i > 1 /\ i < Len(last.pre)
    /\ Count(messages, IsSystem) = 1
    /\ Count(messages, IsAssistant) = 1
    /\ Count(messages, IsUserInstruction) = 2

\* C29: add leaves the committed list as it was when the file is committed
\* already and appends the file otherwise; the file is pending afterwards; and
\* adding the file once more changes nothing.
C29_AddIdempotent ==
    fres.op = "add" =>
        LET f == fres.fpaths[1]
        IN  /\ chat_files = IF Contains(fres.pre.chat, f) THEN fres.pre.chat
                            ELSE Append(fres.pre.chat, f)
            /\ Contains(pending_files, f)
            /\ Len(SelectSeq(pending_files, LAMBDA x : x = f)) = 1
            /\ ChatFilesAdd(Fs, f) = Fs

\* a committed file whose content was sent already became pending again
C29_Witness ==
    /\ fres.op = "add"
    /\ Len(fres.pre.chat) >= 2
    /\ Contains(fres.pre.chat, fres.fpaths[1])
    /\ ~Contains(fres.pre.pending, fres.fpaths[1])
    /\ Contains(pending_files, fres.fpaths[1])
    /\ chat_files = fres.pre.chat

\* C30: remove of a path that is not committed leaves both lists as they were;
\* remove of a committed path leaves the other entries of both lists, in their
\* order, and the path in neither.
C30_RemoveOnlyThePath ==
    fres.op = "remove" =>
        LET f == fres.fpaths[1]
        IN  /\ ~fres.raised
            /\ chat_files = SelectSeq(fres.pre.chat, LAMBDA x : x # f)
            /\ pending_files = SelectSeq(fres.pre.pending, LAMBDA x : x # f)
            /\ ~Contains(fres.pre.chat, f) => Fs = fres.pre

\* a path that is not committed was removed while other files were pending
C30_Witness ==
    /\ fres.op = "remove"
    /\ ~Contains(fres.pre.chat, fres.fpaths[1])
    /\ Len(fres.pre.chat) >= 2
    /\ fres.pre.pending # <<>>
    /\ Fs = fres.pre

-----------------------------------------------------------------------------
(* /invoke-tool with a bad argument, end of input *)

\* the line is /invoke-tool without argument text, or with JSON text that is
\* not an object
IsBadInvokeLine(line) ==
    LET c == parse_cmdline(line)
        parts == SplitMax1(c.arg)
    IN  /\ c.is_cmd
        /\ c.name = <<"invoke-tool">>
        /\ \/ ~c.has_arg
           \/ Len(parts) = 0
           \/ Len(parts) = 2 /\ json_loads(Text(parts[2])).kind # "object"

\* C21 (the claim as stated): /invoke-tool without argument text, or with JSON
\* text that does not parse or is not an object, raises nothing and forwards
\* no tool call.
C21_BadInvokeNeverForwarded ==
    [][ (Took(log, log') /\ IsBadInvokeLine(log'[Len(log')].line)) =>
            /\ loop' = "running"
            /\ tool_calls' = tool_calls ]_vars

\* a command did not return: it raised
CommandRaised ==
    loop = "crashed" /\ log # <<>> /\ log[Len(log)].consumed

\* C22 (the claim as stated): the input being finite, the loop reaches the end
\* of input and exits there, unless a command did not return, and takes no
\* line afterwards.
C22_EofEndsLoop ==
    /\ <>(loop = "eof" \/ CommandRaised)
    /\ [][loop = "eof" => (loop' = "eof" /\ log' = log)]_vars

-----------------------------------------------------------------------------
(* CoderState *)

ItemTypes(items) == [i \in 1..Len(items) |-> items[i].typ]
ExtensionTags == { "repo_map", "file_list" }
HasItem(items, tag) == \E i \in 1..Len(items) : items[i].typ = tag

\* the extension tag is one this project offers
Offered(tag) == tag = "file_list" \/ project.repo_map

\* the extension items stand right behind the system item, or first, and
\* before every other item
ExtensionItemsFirst(items) ==
    LET n == Len(SelectSeq(items, LAMBDA it : it.typ \in ExtensionTags))
        s == IF items # <<>> /\ items[1].typ = "system" THEN 1 ELSE 0
    IN  /\ \A i \in 1..Len(items) :
               (items[i].typ \in ExtensionTags) <=> (s < i /\ i <= s + n)
        /\ \A i \in 2..Len(items) : items[i].typ # "system"

\* C23 (the claim as stated): the agent configured with the CoderState
\* variant has its state, and in the candidate list of its assemblies the
\* extension items stand right behind the system item, or first when there is
\* none, before the files and the user instruction; an offered extension item
\* is in the list exactly when its own flag was not set before, and its flag
\* is set afterwards; no step but a reset clears a flag, and a reset clears
\* them all.
C23_ExtensionItemsOnceAfterSystem ==
    /\ project.constructed
    /\ [][ /\ (/\ obs'.op \in { "add_user_input", "handle_response" }
               /\ ~obs'.raised) =>
                  /\ ExtensionItemsFirst(obs'.items)
                  /\ \A tag \in ExtensionTags :
                         /\ HasItem(obs'.items, tag) <=>
                                (Offered(tag) /\ tag \notin obs'.pre_meta)
                         /\ Offered(tag) => tag \in message_meta'
           /\ IF obs'.op = "reset" THEN message_meta' = {}
              ELSE (message_meta \cap ExtensionTags) \subseteq message_meta'
         ]_vars

-----------------------------------------------------------------------------
(* Completion and /save *)

\* C24 (the claim as stated): for a typed text that starts with "/" and has
\* no space, the candidates are exactly the registered aliases that contain
\* the partial name; for the bare "/" these are all of them.
C24_CandidatesContainPartialName ==
    (/\ obs.op = "complete"
     /\ StartsWithSlash(obs.text)
     /\ FirstSpace(obs.text) = 0) =>
        obs.candidates = { candidate \in command_names :
                               Occurs(Tail(obs.text), candidate) }

\* the text to save: between the first opening tag that has a closing tag
\* behind it and the nearest such closing tag, or the whole message
IsSavedText(msg, text) ==
    IF \E i, j \in 1..Len(msg) : i < j /\ msg[i] = OpenTag /\ msg[j] = CloseTag
    THEN \E i, j \in 1..Len(msg) :
             /\ i < j /\ msg[i] = OpenTag /\ msg[j] = CloseTag
             /\ \A k \in (i + 1)..(j - 1) : msg[k] # CloseTag
             /\ \A k \in 1..(i - 1) :
                    msg[k] = OpenTag =>
                        \A l \in (k + 1)..Len(msg) : msg[l] # CloseTag
             /\ text = SubSeq(msg, i + 1, j - 1)
    ELSE text = msg

\* C25 (the claim as stated): when /save has run, the target file holds the
\* inner text of the first tagged part of the last message, line breaks
\* included, or the whole message when there is none; without a file name
\* the target is <agent-name>_output.md in the workspace; the last thing
\* written to the IO channel is the success report.
C25_SaveWritesTaggedTextOrMessage ==
    obs.op = "save" =>
        /\ Lookup(disk, obs.path.parts).kind = "file"
        /\ IsSavedText(obs.last_message, Lookup(disk, obs.path.parts).content)
        /\ (~obs.has_arg \/ obs.arg = "") =>
               obs.path = AbsP(Workspace.parts \o <<"main_output.md">>)
        /\ (obs.has_arg /\ obs.arg = "f") =>
               obs.path = AbsP(Workspace.parts \o <<"f">>)
        /\ obs.written # <<>>
        /\ obs.written[Len(obs.written)].text = "Saved to"

-----------------------------------------------------------------------------
(* The order of the file blocks *)

\* where the block of file f starts in the text (0: nowhere)
BlockStart(f, text) ==
    IF Occurs(FileHeader(f), text)
    THEN CHOOSE k \in 1..Len(text) :
             /\ SubSeq(text, k, k + Len(FileHeader(f)) - 1) = FileHeader(f)
             /\ \A m \in 1..(k - 1) :
                    SubSeq(text, m, m + Len(FileHeader(f)) - 1) # FileHeader(f)
    ELSE 0

\* C31: in the text read_files returns, of any two committed files that were
\* read the one that stands later in the committed list (was added later) has
\* its block earlier in the text.
C31_LaterAddedFileFirst ==
    (fres.op = "read_files" /\ ~fres.raised) =>
        \A i, j \in 1..Len(fres.pre.chat) :
            (i < j /\ OnDisk(fres.pre.chat[i]) /\ OnDisk(fres.pre.chat[j])) =>
                /\ BlockStart(fres.pre.chat[j], fres.text) > 0
                /\ BlockStart(fres.pre.chat[j], fres.text)
                       < BlockStart(fres.pre.chat[i], fres.text)

\* read_files read two committed files
C31_Witness ==
    /\ fres.op = "read_files"
    /\ ~fres.raised
    /\ Len(fres.fpaths) = 2
    /\ BlockStart(fres.fpaths[2], fres.text) = 1
    /\ BlockStart(fres.fpaths[1], fres.text) > 1

-----------------------------------------------------------------------------
(* The end of a turn *)

\* the step is a handle_response: the response is appended and the transcript
\* assembled again
IsHandleResponseStep ==
    /\ last'.op = "handle_response"
    /\ last'.pre = Append(messages, Msg("assistant", <<"r">>, ""))

\* C32: a user-input assembly that returns leaves nothing pending; a
\* handle_response that follows it directly (nothing changed the files or the
\* flags in between), and more generally every handle_response that finds
\* nothing pending, re-assembles without new content, does not raise, leaves
\* nothing pending and asks for no further round.
C32_TurnEndsWhenNothingPending ==
    [][ /\ (last'.op = "add_user_input" /\ ~last'.raised) =>
               pending_files' = <<>>
        /\ IsHandleResponseStep =>
               /\ (last.op = "add_user_input" /\ ~last.raised) =>
                      pending_files = <<>>
               /\ pending_files = <<>> =>
                      /\ ~last'.raised
                      /\ ~last'.has_new
                      /\ ~last'.ret
                      /\ pending_files' = <<>>
                      /\ message_meta' = message_meta ]_vars

\* the response to a user turn that read a committed file: no further round
C32_Witness ==
    /\ last.op = "handle_response"
    /\ ~last.has_new
    /\ ~last.ret
    /\ Len(last.pre) >= 2
    /\ IsUserInstruction(last.pre[Len(last.pre) - 1])
    /\ Count(last.pre, IsFiles) = 1
    /\ chat_files # <<>>

-----------------------------------------------------------------------------
(* The system flag and the transcript *)

\* C33 (the claim as stated): in every reachable state, those behind an
\* assembly that raised included, the flag `system` is set if and only if the
\* transcript holds the system message.
C33_SystemFlagIffSystemMessage ==
    ("system" \in message_meta) <=> (Count(messages, IsSystem) >= 1)

-----------------------------------------------------------------------------
(* Blank lines *)

OnlySpaces(line) == \A i \in 1..Len(line) : line[i] = " "

\* C34: a step of the turn loop that takes an empty line or a line of white
\* space only gives it neither to the dispatcher nor to step, goes on with the
\* loop, and leaves the transcript, the flags, the committed and the pending
\* files, the model and the forwarded tool calls as they were.
C34_BlankLineSkipped ==
    [][ (Len(log') = Len(log) + 1 /\ OnlySpaces(log'[Len(log')].line)) =>
            /\ ~log'[Len(log')].tried
            /\ ~log'[Len(log')].consumed
            /\ log'[Len(log')].steps = 0
            /\ SubSeq(log', 1, Len(log)) = log
            /\ loop' = loop
            /\ messages' = messages
            /\ message_meta' = message_meta
            /\ chat_files' = chat_files
            /\ pending_files' = pending_files
            /\ model_ref' = model_ref
            /\ tool_calls' = tool_calls ]_vars

\* a line of white space taken behind a command that committed a file
C34_Witness ==
    /\ Len(log) >= 2
    /\ log[Len(log)].line = <<" ">>
    /\ ~log[Len(log)].tried
    /\ log[Len(log)].steps = 0
    /\ pending_files # <<>>
    /\ loop = "running"

-----------------------------------------------------------------------------
(* /info, /save and /commit *)

AssemblyInputs == Inputs \cup { <<>> }

\* what an assembly with this input would do in the state before the step
AssemblyBefore(u) ==
    _assemble_prompt(u, messages, message_meta, Fs, system_prompt, model_ref,
                     disk)

\* ... and in the state behind it
AssemblyAfter(u) ==
    _assemble_prompt(u, messages', message_meta', FS(chat_files', pending_files'),
                     system_prompt', model_ref', disk')

SessionStateUnchanged ==
    /\ messages' = messages
    /\ message_meta' = message_meta
    /\ chat_files' = chat_files
    /\ pending_files' = pending_files
    /\ model_ref' = model_ref

\* the step wrote to a file of the committed list
WroteCommittedFile ==
    \E i \in 1..Len(chat_files) :
        Lookup(disk', Join(Workspace, chat_files[i]).parts)
            # Lookup(disk, Join(Workspace, chat_files[i]).parts)

\* C35 (the claim as stated): /info and /save leave the transcript, the flags,
\* the committed and pending files and the model as they were, and an assembly
\* that follows does what it would have done without the command.
C35_AsStated ==
    [][ last'.op \in { "info", "save" } =>
            /\ SessionStateUnchanged
            /\ \A u \in AssemblyInputs : AssemblyAfter(u) = AssemblyBefore(u)
      ]_vars

\* C35 (amended): /info and /save leave the transcript, the flags, the
\* committed and pending files and the model as they were; /info leaves the
\* disk alone as well; an assembly that follows does what it would have done
\* without the command unless /save wrote to a committed file.
C35_ReadOnlyButForTheSavedFile ==
    [][ last'.op \in { "info", "save" } =>
            /\ SessionStateUnchanged
            /\ last'.op = "info" => disk' = disk
            /\ ~WroteCommittedFile =>
                   \A u \in AssemblyInputs : AssemblyAfter(u) = AssemblyBefore(u)
      ]_vars

\* /save issued in a session with a transcript and a pending file, which it
\* did not write to
C35_Witness ==
    /\ last.op = "save"
    /\ obs.op = "save"
    /\ ~obs.raised
    /\ obs.path = AbsP(<<"w", "main_output.md">>)
    /\ messages # <<>>
    /\ pending_files # <<>>

\* C36 (the claim as stated): /commit without a commit agent in the context
\* writes the notice and nothing else, makes no commit call and does not
\* raise.
C36_CommitWithoutAgentIgnored ==
    (obs.op = "commit" /\ "commit_agent" \notin heap[DefaultContext]) =>
        /\ obs.written = <<NoCommitAgent>>
        /\ obs.commits = 0
        /\ ~obs.raised

=============================================================================
